---- MODULE Spec2Model ----
(***************************************************************************)
(* The Page Ledger and Split Engine of sourcelibrary-v2: the route        *)
(* handlers that write the `pages` and `books` collections, modelled one  *)
(* database call (one `await`) per step.                                  *)
(*                                                                         *)
(* page_number is stored in HALF units: the number k is Num(k) = 2k and   *)
(* the provisional k + 0.5 of a split is 2k + 1.  Timestamps (created_at, *)
(* updated_at) are left out of the page records.                          *)
(***************************************************************************)
EXTENDS Integers, Sequences, FiniteSets, TLC

\* ---------------------------------------------------------------- bounds
MaxPages == 5        \* ObjectIds the model can hand out to pages
MaxOps == 2          \* requests started in one behaviour
MaxOrderLen == 3     \* longest pageOrder array of a reorder request
MaxFiles == 2        \* longest file list of an upload request

\* ------------------------------------------------------ program constants
DefaultSplitRatio == 50      \* splitRatio = 50 when the body has none
CropExtent == 100            \* xEnd of rightCrop in the split handler
ImageScale == 1000           \* the scale the image route divides crops by

\* ------------------------------------------------------------- encodings
Num(k) == 2 * k
HalfPage == 1
IsWhole(n) == n % 2 = 0

Min(a, b) == IF a < b THEN a ELSE b
Max(a, b) == IF a > b THEN a ELSE b
SetMax(S) == CHOOSE x \in S : \A y \in S : y <= x
Range(s) == {s[i] : i \in 1..Len(s)}
SeqsUpTo(S, n) == UNION {[1..k -> S] : k \in 0..n}

PageIds == 1..MaxPages
NoId == 0
BookIds == {1, 2}            \* books stored in the `books` collection
MissingBook == SetMax(BookIds) + 1    \* a book id that names no stored book
NoCrop == << >>
NoPhoto == [kind |-> "none", n |-> 0]
Stages == {"ocr", "translation", "summary"}


VARIABLES
  pages,      \* the `pages` collection: page id -> document
  books,      \* the `books` collection: book id -> document
  nextId,     \* the next ObjectId handed out
  req,        \* the request being handled, or the last one handled
  seen,       \* page_number in the last response of GET /api/pages/:id
  ops,        \* requests started so far
  uiPages,    \* the prepare page's state `pages`: the list as last fetched
  bat,        \* processPages: its locals and the `processing` state
  stopProcessingRef,   \* stopProcessingRef.current
  calls,      \* the prompts handed to the inference service, in order
  pipe,       \* a call of the pipeline (gemini.ts): its locals and outcome
  race,       \* a second request in flight beside `req`, and what happened
  view        \* the prepare page component that is mounted

vars == <<pages, books, nextId, req, seen, ops,
          uiPages, bat, stopProcessingRef, calls, pipe, race, view>>

\* ------------------------------------------------------------ documents
\* the document upload/route.ts inserts
UploadedPage(bookId, n, img) ==
  [book_id |-> bookId, page_number |-> n,
   photo |-> [kind |-> "local", n |-> img],
   photo_original |-> [kind |-> "local", n |-> img],
   crop |-> NoCrop, split_from |-> NoId,
   ocr |-> "null", translation |-> "null", summary |-> "null",
   split_detection |-> "absent"]

\* the document the split handler inserts: no photo_original, no split_from
SplitPage(cur, n, crop) ==
  [book_id |-> cur.book_id, page_number |-> n,
   photo |-> cur.photo,
   photo_original |-> NoPhoto,
   crop |-> crop, split_from |-> NoId,
   ocr |-> "null", translation |-> "null", summary |-> "null",
   split_detection |-> "absent"]

\* a page of the Page interface as an import leaves it: remote image,
\* stage results present, and optionally the lineage field split_from
ImportedPage(bookId, n, img, parent) ==
  [book_id |-> bookId, page_number |-> n,
   photo |-> [kind |-> "http", n |-> img],
   photo_original |-> [kind |-> "http", n |-> img],
   crop |-> NoCrop, split_from |-> parent,
   ocr |-> "t0", translation |-> "t0", summary |-> "absent",
   split_detection |-> "absent"]

NoPage == UploadedPage(0, 0, 0)

EmptyStore == [p \in {} |-> NoPage]
ImportedStore == [p \in {1, 2, 3} |->
                    IF p = 1 THEN ImportedPage(1, Num(1), 1, NoId)
                    ELSE IF p = 2 THEN ImportedPage(1, Num(2), 2, 1)
                    ELSE ImportedPage(2, Num(1), 3, NoId)]
\* a page without image, and a page whose book is not in `books`
OrphanStore == [p \in {1, 2} |->
                  IF p = 1
                    THEN [ImportedPage(1, Num(1), 1, NoId) EXCEPT
                            !.photo = NoPhoto, !.photo_original = NoPhoto]
                    ELSE ImportedPage(MissingBook, Num(1), 2, NoId)]
SeedStores == {EmptyStore, ImportedStore, OrphanStore}

NewBook == [pages |-> 0, thumbnail |-> NoPhoto]

\* ------------------------------------------------------ store operations
PagesOf(db, b) == {p \in DOMAIN db : db[p].book_id = b}

\* updateOne({id}, {$set: {page_number}}): no document matched, no change
SetPageNumber(db, id, n) ==
  IF id \in DOMAIN db THEN [db EXCEPT ![id].page_number = n] ELSE db

\* (mutant) the document rewritten without its lineage
SetCropDropLineage(db, id, c) ==
  IF id \in DOMAIN db THEN [db EXCEPT ![id].crop = c, ![id].split_from = NoId] ELSE db

\* updateOne({id}, {$set: {crop}})
SetCrop(db, id, c) ==
  IF id \in DOMAIN db THEN [db EXCEPT ![id].crop = c] ELSE db

DeleteOne(db, id) == [p \in DOMAIN db \ {id} |-> db[p]]

InsertOne(db, id, doc) == [p \in DOMAIN db \cup {id} |-> IF p = id THEN doc ELSE db[p]]

\* (mutant) sort({page_number: -1})
SortedDescending(db, b) ==
  LET S == PagesOf(db, b)
      n == Cardinality(S)
  IN {s \in [1..n -> S] :
        /\ \A i, j \in 1..n : i # j => s[i] # s[j]
        /\ \A i, j \in 1..n : i < j => db[s[i]].page_number >= db[s[j]].page_number}

\* find({book_id}).sort({page_number: 1}).toArray(): every order of the
\* book's ids that is ascending in page_number (ties in any order)
SortedByPageNumber(db, b) ==
  LET S == PagesOf(db, b)
      n == Cardinality(S)
  IN {s \in [1..n -> S] :
        /\ \A i, j \in 1..n : i # j => s[i] # s[j]
        /\ \A i, j \in 1..n : i < j => db[s[i]].page_number <= db[s[j]].page_number}

\* ------------------------------------------------------------- requests
\* what is remembered of the request before the current one
NoPrev ==
  [op |-> "none", id |-> NoId, side |-> "none", splitRatio |-> 0,
   status |-> 0, newId |-> NoId, pre |-> EmptyStore]

Previous(r) ==
  [op |-> r.op, id |-> r.id, side |-> r.side, splitRatio |-> r.splitRatio,
   status |-> r.status, newId |-> r.newId, pre |-> r.pre]

Idle ==
  [op |-> "none", pc |-> "idle", id |-> NoId, book |-> 0,
   side |-> "none", splitRatio |-> 0, pageOrder |-> << >>, files |-> << >>,
   body |-> {}, det |-> "absent",
   cur |-> NoPage, newId |-> NoId, list |-> << >>, i |-> 0,
   nextPageNumber |-> 0, uploaded |-> 0, thumb |-> NoPhoto,
   status |-> 0, newPageNumber |-> 0, pre |-> EmptyStore, prev |-> NoPrev]

InFlight == req.pc \notin {"idle", "done"}
CanStart == ~InFlight /\ ops < MaxOps

\* a request ends: the handler's locals are dropped, the response is kept
Finish(r, st) ==
  [r EXCEPT !.pc = "done", !.status = st, !.list = << >>, !.i = 0,
            !.cur = NoPage, !.nextPageNumber = 0, !.thumb = NoPhoto]

Start(op, pc0) ==
  [Idle EXCEPT !.op = op, !.pc = pc0, !.pre = pages, !.prev = Previous(req)]

\* ------------------------------------- the prepare page and the pipeline
\* JavaScript's undefined (also what `?.data` of a missing stage gives)
Undefined == "undefined"

\* const [processing, setProcessing] = useState<ProcessingState>({...})
NoProcessing ==
  [active |-> FALSE, type |-> "none", currentPageId |-> NoId,
   currentIndex |-> 0, totalPages |-> 0,
   completed |-> << >>, failed |-> << >>, stopped |-> FALSE]

\* no stopProcessing() since the run began
NoStop == [pc |-> "none", i |-> 0]

\* no run of processPages yet; `response` is the answer to the last fetch
\* ("none" when there was none); `sent` (the bodies posted to
\* /api/process), `stopAt` (where the run was when stopProcessing() was
\* called), `waited` (the turns i that ended with the pacing wait) and
\* `earlier` (the stop flag and the `stopped` mark this run found when it
\* began) are kept for the claims
NoBatch ==
  [pc |-> "idle", type |-> "none", pageIds |-> << >>, i |-> 0,
   pages |-> << >>, completed |-> << >>, failed |-> << >>,
   processing |-> NoProcessing,
   response |-> "none",
   sent |-> << >>, stopAt |-> NoStop, waited |-> {},
   earlier |-> [flag |-> FALSE, stopped |-> FALSE], runs |-> 0]

\* no call of the pipeline yet
NoPipe ==
  [pc |-> "idle", fn |-> "none", imageUrl |-> NoPhoto,
   previousPage |-> [ocr |-> Undefined, translation |-> Undefined,
                     summary |-> Undefined],
   ocr |-> Undefined, translation |-> Undefined, summary |-> Undefined,
   result |-> [ocr |-> Undefined, translation |-> Undefined,
               summary |-> Undefined, failed |-> "none"],
   runs |-> 0]

\* the page and the pipeline untouched
\* no second request; `interleaved`, `failed` and `started` are kept for
\* the claims: whether a handler took a step while the other was unfinished,
\* whether a request ended in the catch, and the operations requested
NoRace ==
  [rival |-> Idle, interleaved |-> FALSE, failed |-> FALSE, started |-> {}]

\* no prepare page mounted; `before`, `dragged` and `target` are the list
\* and the ids of the last drop, kept for the claims
NoView ==
  [component |-> "none", bookId |-> 0,
   before |-> << >>, dragged |-> NoId, target |-> NoId]

Quiet ==
  /\ uiPages = << >>
  /\ bat = NoBatch
  /\ stopProcessingRef = FALSE
  /\ calls = << >>
  /\ pipe = NoPipe
  /\ race = NoRace
  /\ view = NoView

Init ==
  /\ pages \in SeedStores
  /\ books = [b \in BookIds |-> NewBook]
  /\ nextId = Cardinality(DOMAIN pages) + 1
  /\ req = Idle
  /\ seen = 0
  /\ ops = 0
  /\ Quiet

\* return NextResponse.json({error: '... not found'}, {status: 404})
NotFound(r) == Finish(r, 404)

\* ------------------------------------------------ DELETE /api/pages/:id
\* (mutant) success answered for a page that is not there
DeletedAnyway(r) == Finish(r, 200)

\* !page: 'Page not found'
DeleteMissing(r) == NotFound(r)

\* findOne({id}); 404 when there is none
DeleteBegin(id) ==
  /\ CanStart
  /\ ops' = ops + 1
  /\ LET r == [Start("delete", "del_delete") EXCEPT !.id = id]
     IN req' = IF id \in DOMAIN pages
                 THEN [r EXCEPT !.cur = pages[id]]
                 ELSE DeleteMissing(r)
  /\ UNCHANGED <<pages, books, nextId, seen>>

\* deleteOne({id})
DeleteRemove ==
  /\ req.pc = "del_delete"
  /\ pages' = DeleteOne(pages, req.id)
  /\ req' = [req EXCEPT !.pc = "del_find"]
  /\ UNCHANGED <<books, nextId, seen, ops>>

\* find({book_id}).sort({page_number: 1}); an empty result ends the loop
DeleteFind ==
  /\ req.pc = "del_find"
  /\ \E s \in SortedByPageNumber(pages, req.cur.book_id) :
       req' = IF Len(s) = 0 THEN Finish(req, 200)
              ELSE [req EXCEPT !.pc = "del_loop", !.list = s, !.i = 1]
  /\ UNCHANGED <<pages, books, nextId, seen, ops>>

\* (mutant) page_number: i, the numbering started at 0
RenumberValueZeroBased(i) == Num(i - 1)

\* one turn of the renumbering loop: page_number: i + 1 (0-based i)
RenumberValue(i) == Num(i)

DeleteRenumber ==
  /\ req.pc = "del_loop"
  /\ pages' = SetPageNumber(pages, req.list[req.i], RenumberValue(req.i))
  /\ req' = IF req.i = Len(req.list) THEN Finish(req, 200)
            ELSE [req EXCEPT !.i = req.i + 1]
  /\ UNCHANGED <<books, nextId, seen, ops>>

\* -------------------------------------------- POST /api/pages/:id/split
\* the bodies tried: side and splitRatio; "none" is a body without a side
\* (splitRatio then takes its default)
SplitBodies == {<<"left", 30>>, <<"left", DefaultSplitRatio>>,
                <<"right", DefaultSplitRatio>>, <<"right", 120>>,
                <<"none", DefaultSplitRatio>>}

leftCrop(splitRatio) == <<0, splitRatio>>
rightCrop(splitRatio) == <<splitRatio, CropExtent>>
currentCrop(side, splitRatio) ==
  IF side = "left" THEN leftCrop(splitRatio) ELSE rightCrop(splitRatio)
\* (mutant) the new page given the half the origin keeps
newCropSameHalf(side, splitRatio) == currentCrop(side, splitRatio)

newCrop(side, splitRatio) ==
  IF side = "left" THEN rightCrop(splitRatio) ELSE leftCrop(splitRatio)

\* currentPageNumber + 0.5
newPageNumber(currentPageNumber) == currentPageNumber + HalfPage

\* the document inserted for the other half
newPage(r) ==
  SplitPage(r.cur, newPageNumber(r.cur.page_number), newCrop(r.side, r.splitRatio))

\* (mutant) the same ObjectId handed out again
SameObjectId(n) == n

\* new ObjectId(): the generator moves on, no id is handed out twice
AfterObjectId(n) == n + 1

\* (mutant) the test of the image left out
photoNeverMissing(doc) == FALSE

\* !currentPage.photo
photoMissing(doc) == doc.photo.kind = "none"

\* findOne page (404), photo (400), findOne book (404), find allPages,
\* new ObjectId
SplitBegin(id, side, splitRatio) ==
  /\ CanStart
  /\ ops' = ops + 1
  /\ LET r == [Start("split", "split_crop") EXCEPT
                 !.id = id, !.side = side, !.splitRatio = splitRatio]
     IN IF id \notin DOMAIN pages
          THEN req' = Finish(r, 404) /\ nextId' = nextId
        ELSE IF photoMissing(pages[id])
          THEN req' = Finish(r, 400) /\ nextId' = nextId
        ELSE IF pages[id].book_id \notin DOMAIN books
          THEN req' = Finish(r, 404) /\ nextId' = nextId
        ELSE /\ nextId <= MaxPages
             /\ req' = [r EXCEPT !.cur = pages[id], !.newId = nextId]
             /\ nextId' = AfterObjectId(nextId)
  /\ UNCHANGED <<pages, books, seen>>

\* updateOne({id: pageId}, {$set: {crop: currentCrop}})
SplitCrop ==
  /\ req.pc = "split_crop"
  /\ pages' = SetCrop(pages, req.id, currentCrop(req.side, req.splitRatio))
  /\ req' = [req EXCEPT !.pc = "split_insert"]
  /\ UNCHANGED <<books, nextId, seen, ops>>

\* insertOne(newPage)
SplitInsert ==
  /\ req.pc = "split_insert"
  /\ pages' = InsertOne(pages, req.newId, newPage(req))
  /\ req' = [req EXCEPT !.pc = "split_find"]
  /\ UNCHANGED <<books, nextId, seen, ops>>

\* find({book_id}).sort({page_number: 1}) -> updatedPages
SplitFind ==
  /\ req.pc = "split_find"
  /\ \E s \in SortedByPageNumber(pages, req.cur.book_id) :
       req' = IF Len(s) = 0 THEN [req EXCEPT !.pc = "split_book", !.list = s]
              ELSE [req EXCEPT !.pc = "split_loop", !.list = s, !.i = 1]
  /\ UNCHANGED <<pages, books, nextId, seen, ops>>

SplitRenumber ==
  /\ req.pc = "split_loop"
  /\ pages' = SetPageNumber(pages, req.list[req.i], RenumberValue(req.i))
  /\ req' = IF req.i = Len(req.list) THEN [req EXCEPT !.pc = "split_book"]
            ELSE [req EXCEPT !.i = req.i + 1]
  /\ UNCHANGED <<books, nextId, seen, ops>>

\* books.updateOne({$set: {pages: updatedPages.length}}), then the response
\* with newPage.page_number: currentPageNumber + 1
SplitBookCount ==
  /\ req.pc = "split_book"
  /\ books' = IF req.cur.book_id \in DOMAIN books
                THEN [books EXCEPT ![req.cur.book_id].pages = Len(req.list)]
                ELSE books
  /\ req' = [Finish(req, 200) EXCEPT
               !.newPageNumber = req.cur.page_number + Num(1)]
  /\ UNCHANGED <<pages, nextId, seen, ops>>

\* ------------------------------------------ POST /api/books/:id/reorder
\* the arrays tried: over the stored ids and one id that names no page,
\* without repetition, or a pair
PageOrders(db) ==
  {s \in SeqsUpTo(DOMAIN db \cup {nextId}, MaxOrderLen) :
     Len(s) = 2 \/ \A i, j \in 1..Len(s) : i # j => s[i] # s[j]}

\* Array.isArray (400), findOne book (404)
ReorderBegin(bookId, isArray, pageOrder) ==
  /\ CanStart
  /\ ops' = ops + 1
  /\ LET r == [Start("reorder", "reorder_loop") EXCEPT
                 !.book = bookId, !.pageOrder = pageOrder]
     IN req' = IF ~isArray THEN Finish(r, 400)
               ELSE IF bookId \notin DOMAIN books THEN Finish(r, 404)
               ELSE IF Len(pageOrder) = 0 THEN Finish(r, 200)
               ELSE [r EXCEPT !.i = 1]
  /\ UNCHANGED <<pages, books, nextId, seen>>

\* (mutant) the filter {id} without book_id
ReorderUpdateAnyBook(db, bookId, id, i) ==
  SetPageNumber(db, id, RenumberValue(i))

\* (mutant) page_number: i, the + 1 forgotten
ReorderUpdateZeroBased(db, bookId, id, i) ==
  IF id \in DOMAIN db /\ db[id].book_id = bookId
    THEN SetPageNumber(db, id, Num(i - 1))
    ELSE db

\* updateOne({id: pageOrder[i], book_id: bookId}, {$set: {page_number: i + 1}})
ReorderUpdate(db, bookId, id, i) ==
  IF id \in DOMAIN db /\ db[id].book_id = bookId
    THEN SetPageNumber(db, id, RenumberValue(i))
    ELSE db

ReorderStep ==
  /\ req.pc = "reorder_loop"
  /\ pages' = ReorderUpdate(pages, req.book, req.pageOrder[req.i], req.i)
  /\ req' = IF req.i = Len(req.pageOrder) THEN Finish(req, 200)
            ELSE [req EXCEPT !.i = req.i + 1]
  /\ UNCHANGED <<books, nextId, seen, ops>>

\* ----------------------------------------------------- POST /api/upload
\* "other": not image/*; "big": over MAX_FILE_SIZE
FileLists == {f \in SeqsUpTo({"image", "other", "big"}, MaxFiles) :
                \A i \in 1..Len(f) : f[i] = "big" => i = 1}
\* the requests tried: every file list for a stored book, one for the others
UploadRequests == (BookIds \X FileLists) \cup ({0, MissingBook} \X {<<"image">>})
Accepted(file) == file = "image"
AcceptedCount(files) == Cardinality({i \in 1..Len(files) : Accepted(files[i])})

\* (mutant) the number of pages + 1
NextPageNumberByCount(db, bookId) ==
  Num(Cardinality(PagesOf(db, bookId)) + 1)

\* existingPages[0].page_number + 1 of find().sort({page_number: -1}).limit(1), or 1
NextPageNumber(db, bookId) ==
  IF PagesOf(db, bookId) = {} THEN Num(1)
  ELSE SetMax({db[p].page_number : p \in PagesOf(db, bookId)}) + Num(1)

\* bookId (400), files (400), findOne book (404), the current maximum
UploadBegin(bookId, files) ==
  /\ CanStart
  /\ nextId + AcceptedCount(files) <= MaxPages + 1
  /\ ops' = ops + 1
  /\ LET r == [Start("upload", "upload_loop") EXCEPT !.book = bookId, !.files = files]
     IN req' = IF bookId = 0 THEN Finish(r, 400)
               ELSE IF Len(files) = 0 THEN Finish(r, 400)
               ELSE IF bookId \notin DOMAIN books THEN Finish(r, 404)
               ELSE [r EXCEPT !.i = 1,
                              !.nextPageNumber = NextPageNumber(pages, bookId),
                              !.thumb = books[bookId].thumbnail]
  /\ UNCHANGED <<pages, books, nextId, seen>>

\* one turn of `for (const file of files)`: skip, or writeFile + insertOne
UploadFile ==
  /\ req.pc = "upload_loop"
  /\ LET ok == Accepted(req.files[req.i])
         r == IF ok THEN [req EXCEPT !.nextPageNumber = @ + Num(1), !.uploaded = @ + 1]
              ELSE req
     IN /\ pages' = IF ok
                      THEN InsertOne(pages, nextId,
                                     UploadedPage(req.book, req.nextPageNumber, nextId))
                      ELSE pages
        /\ nextId' = IF ok THEN nextId + 1 ELSE nextId
        /\ req' = IF req.i < Len(req.files) THEN [r EXCEPT !.i = @ + 1]
                  ELSE IF r.uploaded > 0 THEN [r EXCEPT !.pc = "upload_first"]
                  ELSE Finish(r, 200)
  /\ UNCHANGED <<books, seen, ops>>

\* findOne({book_id, page_number: 1}) and, when the book read at the start
\* had no thumbnail, books.updateOne({$set: {thumbnail: firstPage.photo}})
UploadThumbnail ==
  /\ req.pc = "upload_first"
  /\ LET first == {p \in PagesOf(pages, req.book) : pages[p].page_number = Num(1)}
     IN IF first # {} /\ req.thumb.kind = "none"
          THEN \E p \in first :
                 books' = [books EXCEPT ![req.book].thumbnail = pages[p].photo]
          ELSE books' = books
  /\ req' = Finish(req, 200)
  /\ UNCHANGED <<pages, nextId, seen, ops>>

\* ------------------------------------------------- PATCH /api/pages/:id
\* the stage results a body carries
Bodies == {{}, {"ocr"}, {"translation", "summary"}}
Text == "t1"                     \* the text written

\* $set of 'ocr.data' and its siblings: the store refuses a dotted path
\* through a field that holds null
PathBlocked(doc, body) == \E st \in body : doc[st] = "null"

\* (mutant) the document replaced by one holding only the stage results
SetStagesReplacing(doc, body) ==
  [doc EXCEPT !.ocr = IF "ocr" \in body THEN Text ELSE @,
              !.translation = IF "translation" \in body THEN Text ELSE @,
              !.summary = IF "summary" \in body THEN Text ELSE @,
              !.crop = NoCrop, !.split_from = NoId]

\* $set: updateData
SetStages(doc, body) ==
  [doc EXCEPT !.ocr = IF "ocr" \in body THEN Text ELSE @,
              !.translation = IF "translation" \in body THEN Text ELSE @,
              !.summary = IF "summary" \in body THEN Text ELSE @]

\* updateOne({id}, {$set: updateData}); matchedCount 0 is 404
Patch(id, body) ==
  /\ CanStart
  /\ ops' = ops + 1
  /\ LET r == [Start("patch", "done") EXCEPT !.id = id, !.body = body]
     IN IF id \notin DOMAIN pages
          THEN pages' = pages /\ req' = Finish(r, 404)
        ELSE IF PathBlocked(pages[id], body)
          THEN pages' = pages /\ req' = Finish(r, 500)
        ELSE /\ pages' = [pages EXCEPT ![id] = SetStages(@, body)]
             /\ req' = Finish(r, 200)
  /\ UNCHANGED <<books, nextId, seen>>

\* ------------------------------------ POST /api/pages/:id/detect-split
Detections == {"spread", "single"}

\* page.photo_original || page.photo
imageUrl(doc) == IF doc.photo_original.kind # "none" THEN doc.photo_original ELSE doc.photo

\* findOne (404), imageUrl.startsWith('http') (400), the image and the
\* model's answer
DetectBegin(id, detection) ==
  /\ CanStart
  /\ ops' = ops + 1
  /\ LET r == [Start("detect", "detect_save") EXCEPT !.id = id]
     IN req' = IF id \notin DOMAIN pages THEN Finish(r, 404)
               ELSE IF imageUrl(pages[id]).kind # "http" THEN Finish(r, 400)
               ELSE [r EXCEPT !.det = detection]
  /\ UNCHANGED <<pages, books, nextId, seen>>

\* (mutant) a detected spread applied at once
SetSplitDetectionApplied(db, id, detection) ==
  IF id \in DOMAIN db
    THEN [db EXCEPT ![id].split_detection = detection,
                    ![id].crop = IF detection = "spread"
                                   THEN leftCrop(DefaultSplitRatio) ELSE @]
    ELSE db

\* updateOne({id}, {$set: {split_detection: detection}})
SetSplitDetection(db, id, detection) ==
  IF id \in DOMAIN db THEN [db EXCEPT ![id].split_detection = detection] ELSE db

\* the detection is saved and answered
DetectSave ==
  /\ req.pc = "detect_save"
  /\ pages' = SetSplitDetection(pages, req.id, req.det)
  /\ req' = Finish(req, 200)
  /\ UNCHANGED <<books, nextId, seen, ops>>

\* --------------------------------------------------- GET /api/pages/:id
\* a reader of the store, at any moment: findOne({id})
GetPage(id) ==
  /\ ops < MaxOps
  /\ id \in DOMAIN pages
  /\ ops' = ops + 1
  /\ seen' = pages[id].page_number
  /\ UNCHANGED <<pages, books, nextId, req>>

\* ------------------------------------------------------------- failure
\* the awaited call throws: the handler's catch answers 500
Throw ==
  /\ InFlight
  /\ req' = Finish(req, 500)
  /\ UNCHANGED <<pages, books, nextId, seen, ops>>

\* a client sends a request
Request ==
  /\ CanStart
  /\ \/ \E id \in PageIds : DeleteBegin(id)
     \/ \E id \in PageIds, b \in SplitBodies : SplitBegin(id, b[1], b[2])
     \/ \E bookId \in BookIds, pageOrder \in PageOrders(pages) :
          ReorderBegin(bookId, TRUE, pageOrder)
     \/ \E pageOrder \in {<<1>>} : ReorderBegin(MissingBook, TRUE, pageOrder)
     \/ \E bookId \in {1} : ReorderBegin(bookId, FALSE, << >>)
     \/ \E u \in UploadRequests : UploadBegin(u[1], u[2])
     \/ \E id \in PageIds, body \in Bodies : Patch(id, body)
     \/ \E id \in PageIds, detection \in Detections : DetectBegin(id, detection)

\* the handler in flight makes its next database call, or the call throws
Step ==
  /\ InFlight
  /\ \/ DeleteRemove
     \/ DeleteFind
     \/ DeleteRenumber
     \/ SplitCrop
     \/ SplitInsert
     \/ SplitFind
     \/ SplitRenumber
     \/ SplitBookCount
     \/ ReorderStep
     \/ UploadFile
     \/ UploadThumbnail
     \/ DetectSave
     \/ Throw

\* the handlers do not touch the browser's state
Next ==
  \/ Request /\ UNCHANGED <<uiPages, bat, stopProcessingRef, calls, pipe, race, view>>
  \/ Step /\ UNCHANGED <<uiPages, bat, stopProcessingRef, calls, pipe, race, view>>
  \/ \E id \in PageIds :
       GetPage(id) /\ UNCHANGED <<uiPages, bat, stopProcessingRef, calls, pipe, race, view>>

Spec == Init /\ [][Next]_vars

\* =========================================================== the pipeline
\* gemini.ts: performOCR, performTranslation, generateSummary and
\* processPageComplete.  A text is a name; Chars gives its length.
MaxCalls == 2                \* calls of the pipeline in one behaviour
ContextChars == 2000         \* previousPageOcr.slice(0, 2000)
LongText == "L"              \* a text longer than ContextChars

Chars(t) ==
  IF t \in {Undefined, ""} THEN 0
  ELSE IF t = LongText THEN ContextChars + 1
  ELSE 1

\* `if (previousPageOcr)`: undefined and '' are falsy
Truthy(t) == t \notin {Undefined, ""}

\* t.slice(0, n): the text and how much of it
slice(t, n) == [of |-> t, chars |-> Min(Chars(t), n)]
whole(t) == [of |-> t, chars |-> Chars(t)]
NoContext == [of |-> Undefined, chars |-> 0]

\* the prompt performOCR hands to generateContent, with the image
performOCR(previousPageOcr) ==
  [stage |-> "ocr", input |-> "image",
   context |-> IF Truthy(previousPageOcr)
                 THEN slice(previousPageOcr, ContextChars) ELSE NoContext]

\* the prompt of performTranslation: no test of ocrText
performTranslation(ocrText, previousPageTranslation) ==
  [stage |-> "translation", input |-> ocrText,
   context |-> IF Truthy(previousPageTranslation)
                 THEN slice(previousPageTranslation, ContextChars) ELSE NoContext]

\* the prompt of generateSummary: no test of translatedText, and the
\* previous summary is appended whole
generateSummary(translatedText, previousPageSummary) ==
  [stage |-> "summary", input |-> translatedText,
   context |-> IF Truthy(previousPageSummary)
                 THEN whole(previousPageSummary) ELSE NoContext]

\* previousPage?: { ocr?, translation?, summary? }
NoPreviousPage == [ocr |-> Undefined, translation |-> Undefined, summary |-> Undefined]
PreviousPages ==
  {NoPreviousPage,
   [ocr |-> "A", translation |-> "TA", summary |-> "SA"],
   [ocr |-> LongText, translation |-> "", summary |-> LongText]}

\* result.response.text() of each stage
Outputs(stage) ==
  CASE stage = "ocr" -> {"o1", "o2", ""}
    [] stage = "translation" -> {"t1", ""}
    [] stage = "summary" -> {"s1"}

\* the texts a caller hands to performTranslation or generateSummary
InputTexts == {"A", ""}

PipeAtRest == pipe.pc \in {"idle", "returned", "thrown"}
CanCall == PipeAtRest /\ pipe.runs < MaxCalls

Call(fn, pc0, previousPage) ==
  [NoPipe EXCEPT !.pc = pc0, !.fn = fn, !.previousPage = previousPage,
                 !.runs = pipe.runs + 1]

\* (mutant) the error swallowed: the next stage runs on undefined
Swallowed(p) ==
  [p EXCEPT !.pc = CASE p.fn # "processPageComplete" -> "thrown"
                     [] p.pc = "ocr" -> "translation"
                     [] p.pc = "translation" -> "summary"
                     [] OTHER -> "thrown",
            !.result = [NoPipe.result EXCEPT !.failed = p.pc]]

\* an awaited stage rejects: nothing catches it in processPageComplete, the
\* call rejects and its locals are gone
Thrown(p) ==
  [p EXCEPT !.pc = "thrown",
            !.result = [NoPipe.result EXCEPT !.failed = p.pc]]

\* a stage resolves with text: the next stage, or `return { ocr, translation, summary }`
Resolved(p, text) ==
  LET q == [p EXCEPT ![p.pc] = text]
  IN IF p.fn = "processPageComplete" /\ p.pc # "summary"
       THEN [q EXCEPT !.pc = IF p.pc = "ocr" THEN "translation" ELSE "summary"]
       ELSE [q EXCEPT !.pc = "returned",
                      !.result = [ocr |-> q.ocr, translation |-> q.translation,
                                  summary |-> q.summary, failed |-> "none"]]

\* (mutant) translation fed the previous page's transcription
StageCallStale(p) ==
  CASE p.pc = "ocr" -> performOCR(p.previousPage.ocr)
    [] p.pc = "translation" ->
         performTranslation(p.previousPage.ocr, p.previousPage.translation)
    [] p.pc = "summary" -> generateSummary(p.translation, p.previousPage.summary)

\* the stage the call is at, with the arguments processPageComplete gives it
StageCall(p) ==
  CASE p.pc = "ocr" -> performOCR(p.previousPage.ocr)
    [] p.pc = "translation" -> performTranslation(p.ocr, p.previousPage.translation)
    [] p.pc = "summary" -> generateSummary(p.translation, p.previousPage.summary)

\* processPageComplete(imageUrl, language, targetLanguage, previousPage)
processPageComplete(previousPage) ==
  /\ pipe' = Call("processPageComplete", "ocr", previousPage)
  /\ calls' = << >>

\* a caller uses performTranslation alone
TranslateAlone(ocrText, previousPageTranslation) ==
  /\ pipe' = [Call("performTranslation", "translation",
                   [NoPreviousPage EXCEPT !.translation = previousPageTranslation])
                EXCEPT !.ocr = ocrText]
  /\ calls' = << >>

\* a caller uses generateSummary alone
SummarizeAlone(translatedText, previousPageSummary) ==
  /\ pipe' = [Call("generateSummary", "summary",
                   [NoPreviousPage EXCEPT !.summary = previousPageSummary])
                EXCEPT !.translation = translatedText]
  /\ calls' = << >>

\* no GEMINI_API_KEY, or (performOCR) the image cannot be fetched: the stage
\* throws before it reaches the inference service
StageThrowsEarly ==
  /\ pipe' = Thrown(pipe)
  /\ calls' = calls

\* generateContent resolves
StageGenerate(text) ==
  /\ calls' = Append(calls, StageCall(pipe))
  /\ pipe' = Resolved(pipe, text)

\* generateContent rejects
StageGenerateThrows ==
  /\ calls' = Append(calls, StageCall(pipe))
  /\ pipe' = Thrown(pipe)

PipeCall ==
  /\ CanCall
  /\ \/ \E previousPage \in PreviousPages : processPageComplete(previousPage)
     \/ \E ocrText \in InputTexts, previous \in {Undefined, LongText} :
          TranslateAlone(ocrText, previous)
     \/ \E translatedText \in InputTexts, previous \in {Undefined, LongText} :
          SummarizeAlone(translatedText, previous)

PipeStep ==
  /\ ~PipeAtRest
  /\ \/ StageThrowsEarly
     \/ \E text \in Outputs(pipe.pc) : StageGenerate(text)
     \/ StageGenerateThrows

PipeInit ==
  /\ pages = EmptyStore
  /\ books = [b \in BookIds |-> NewBook]
  /\ nextId = 1
  /\ req = Idle
  /\ seen = 0
  /\ ops = 0
  /\ Quiet

PipeNext ==
  \/ PipeCall /\ UNCHANGED <<pages, books, nextId, req, seen, ops,
                             uiPages, bat, stopProcessingRef, race, view>>
  \/ PipeStep /\ UNCHANGED <<pages, books, nextId, req, seen, ops,
                             uiPages, bat, stopProcessingRef, race, view>>

SpecPipe == PipeInit /\ [][PipeNext]_vars

\* ================================================= the batch orchestrator
\* processPages and stopProcessing of the prepare page.  JavaScript runs a
\* callback to its next `await` without interruption, so one action is the
\* code from one await to the next.
MaxBatch == 3                \* longest pageIds list of a run
MaxRuns == 1                 \* runs of processPages in one behaviour

\* page.ocr?.data of a stored or listed page
Data(v) == IF v \in {"null", "absent"} THEN Undefined ELSE v

\* a book of three imported pages with OCR texts A, B, C
BatchStore ==
  [p \in {1, 2, 3} |->
     [ImportedPage(1, Num(p), p, NoId) EXCEPT
        !.ocr = <<"A", "B", "C">>[p],
        !.translation = <<"TA", LongText, "null">>[p],
        !.summary = <<"SA", "absent", "absent">>[p]]]

\* an id no listed page has
UnknownId == SetMax(DOMAIN BatchStore) + 1

\* the lists a run is given: ids without repetition (the callers build them
\* from a Set or from a filter of `pages`)
BatchLists ==
  {s \in SeqsUpTo(DOMAIN BatchStore \cup {UnknownId}, MaxBatch) :
     \A i, j \in 1..Len(s) : i # j => s[i] # s[j]}

\* a page as the browser holds it
LocalPage(db, p) ==
  [id |-> p, photo |-> db[p].photo,
   ocr |-> db[p].ocr, translation |-> db[p].translation, summary |-> db[p].summary]

\* data.pages of GET /api/books/:id: listOrdered, the pages by page_number
FetchedPages(db, bookId) ==
  {[k \in 1..Len(order) |-> LocalPage(db, order[k])] :
     order \in SortedByPageNumber(db, bookId)}

\* pages.findIndex(p => p.id === pageId), 1-based; 0 when there is none
findIndex(list, pageId) ==
  IF \E k \in 1..Len(list) : list[k].id = pageId
    THEN CHOOSE k \in 1..Len(list) : list[k].id = pageId
    ELSE 0

\* (mutant) the page itself taken as its previous page
samePageId(list, pageIndex) == list[pageIndex].id

\* previousPage?.id with previousPage = pageIndex > 0 ? pages[pageIndex - 1] : null
previousPageId(list, pageIndex) ==
  IF pageIndex > 1 THEN list[pageIndex - 1].id ELSE NoId

\* (mutant) the pages of the supplied ids, in the order supplied
suppliedPages(b) ==
  LET ids == SelectSeq(b.pageIds, LAMBDA id : findIndex(b.pages, id) # 0)
  IN [k \in 1..Len(ids) |-> b.pages[findIndex(b.pages, ids[k])]]

\* `pages`, the list of the book's pages the callback closed over
closurePages(b) == b.pages

\* the body posted to /api/process for pageId
ProcessBody(type, list, pageId) ==
  LET pageIndex == findIndex(list, pageId)
      page == list[pageIndex]
  IN [pageId |-> pageId, action |-> type,
      ocrText |-> IF type = "translation" THEN Data(page.ocr) ELSE Undefined,
      translatedText |-> IF type = "summary" THEN Data(page.translation) ELSE Undefined,
      previousPageId |-> previousPageId(list, pageIndex)]

\* (mutant) the loop left with the run still marked active
EndedStillActive(b) ==
  [b EXCEPT !.pc = "ended", !.processing.currentPageId = NoId]

\* the loop is left: setProcessing({active: false, currentPageId: null})
Ended(b) ==
  [b EXCEPT !.pc = "ended", !.processing.active = FALSE,
            !.processing.currentPageId = NoId]

\* (mutant) the loop without the test of the stop flag
RECURSIVE LoopNoStop(_, _)
LoopNoStop(b, stop) ==
  IF b.i >= Len(b.pageIds) THEN Ended(b)
  ELSE IF findIndex(b.pages, b.pageIds[b.i + 1]) = 0
    THEN LoopNoStop([b EXCEPT !.i = @ + 1], stop)
  ELSE [b EXCEPT !.pc = "fetch",
                 !.processing.currentPageId = b.pageIds[b.i + 1],
                 !.processing.currentIndex = b.i + 1,
                 !.sent = Append(@, ProcessBody(b.type, closurePages(b), b.pageIds[b.i + 1]))]

\* (mutant) the stop flag tested before `i < pageIds.length`
RECURSIVE LoopStopFirst(_, _)
LoopStopFirst(b, stop) ==
  IF stop THEN Ended([b EXCEPT !.processing.stopped = TRUE])
  ELSE IF b.i >= Len(b.pageIds) THEN Ended(b)
  ELSE IF findIndex(b.pages, b.pageIds[b.i + 1]) = 0
    THEN LoopStopFirst([b EXCEPT !.i = @ + 1], stop)
  ELSE [b EXCEPT !.pc = "fetch",
                 !.processing.currentPageId = b.pageIds[b.i + 1],
                 !.processing.currentIndex = b.i + 1,
                 !.sent = Append(@, ProcessBody(b.type, closurePages(b), b.pageIds[b.i + 1]))]

\* the for loop from its test `i < pageIds.length` to the next await: the
\* stop flag, `if (!page) continue`, then the fetch is sent
RECURSIVE Loop(_, _)
Loop(b, stop) ==
  IF b.i >= Len(b.pageIds) THEN Ended(b)
  ELSE IF stop THEN Ended([b EXCEPT !.processing.stopped = TRUE])
  ELSE IF findIndex(b.pages, b.pageIds[b.i + 1]) = 0
    THEN Loop([b EXCEPT !.i = @ + 1], stop)
  ELSE [b EXCEPT !.pc = "fetch",
                 !.processing.currentPageId = b.pageIds[b.i + 1],
                 !.processing.currentIndex = b.i + 1,
                 !.sent = Append(@, ProcessBody(b.type, closurePages(b), b.pageIds[b.i + 1]))]

\* setProcessing({completed, failed})
Reported(b) ==
  [b EXCEPT !.processing.completed = b.completed, !.processing.failed = b.failed]

\* (mutant) the loop left at the first failure
AfterItemHalting(b, stop) ==
  IF b.failed # << >> THEN Ended(Reported(b))
  ELSE IF b.i < Len(b.pageIds) - 1 /\ ~stop
    THEN [Reported(b) EXCEPT !.pc = "wait", !.waited = @ \cup {b.i}]
    ELSE Loop([Reported(b) EXCEPT !.i = @ + 1], stop)

\* (mutant) a failed item tried again
AfterItemRetrying(b, stop) ==
  IF b.failed # << >> /\ Len(b.sent) < MaxBatch + 1
    THEN Loop([Reported(b) EXCEPT !.failed = << >>], stop)
  ELSE IF b.i < Len(b.pageIds) - 1 /\ ~stop
    THEN [Reported(b) EXCEPT !.pc = "wait", !.waited = @ \cup {b.i}]
    ELSE Loop([Reported(b) EXCEPT !.i = @ + 1], stop)

\* after the try/catch of an item: the progress is reported, then the pacing
\* wait, or directly i++ and the next turn of the loop
AfterItem(b, stop) ==
  IF b.i < Len(b.pageIds) - 1 /\ ~stop
    THEN [Reported(b) EXCEPT !.pc = "wait", !.waited = @ \cup {b.i}]
    ELSE Loop([Reported(b) EXCEPT !.i = @ + 1], stop)

\* the buttons that start a run are disabled while one is active
CanRun == ~bat.processing.active /\ bat.runs < MaxRuns

\* (mutant) the stop flag left as the earlier run left it
keptStopFlag == stopProcessingRef

\* stopProcessingRef.current = false
clearedStopFlag == FALSE

\* processPages(type, pageIds)
processPages(type, pageIds) ==
  /\ ~bat.processing.active
  /\ IF pageIds = << >>
       THEN /\ bat' = [bat EXCEPT !.runs = @ + 1]
            /\ stopProcessingRef' = stopProcessingRef
       ELSE /\ stopProcessingRef' = clearedStopFlag
            /\ bat' = Loop([NoBatch EXCEPT
                   !.type = type, !.pageIds = pageIds, !.pages = uiPages,
                   !.runs = bat.runs + 1,
                   !.earlier = [flag |-> stopProcessingRef,
                                stopped |-> bat.processing.stopped],
                   !.processing = [NoProcessing EXCEPT
                      !.active = TRUE, !.type = type,
                      !.totalPages = Len(pageIds)]], clearedStopFlag)
  /\ calls' = IF pageIds = << >> THEN calls ELSE << >>
  /\ UNCHANGED <<pages, uiPages>>

\* the Stop button, shown while a run is active
stopProcessing ==
  /\ bat.processing.active
  /\ ~stopProcessingRef
  /\ stopProcessingRef' = TRUE
  /\ bat' = [bat EXCEPT !.stopAt = [pc |-> bat.pc, i |-> bat.i]]
  /\ UNCHANGED <<pages, uiPages, calls>>

\* /api/process: the previous page is read from the ledger by the id the
\* body names, and its result of the same stage is the stage's context
ProcessPrompt(db, body) ==
  LET previous == IF body.previousPageId \in DOMAIN db
                    THEN Data(db[body.previousPageId][body.action])
                    ELSE Undefined
  IN CASE body.action = "ocr" -> performOCR(previous)
       [] body.action = "translation" -> performTranslation(body.ocrText, previous)
       [] body.action = "summary" -> generateSummary(body.translatedText, previous)

\* /api/process with autoSave: the result is written to the page
ProcessSave(db, body, text) ==
  [db EXCEPT ![body.pageId][body.action] = text]

\* the text the inference service answers with
BatchOutput == "N"

\* setPages(prev => prev.map(...)): `if (result.ocr)` and its siblings
setPages(list, pageId, type, text) ==
  [k \in 1..Len(list) |->
     IF list[k].id = pageId /\ Truthy(text)
       THEN [list[k] EXCEPT ![type] = text] ELSE list[k]]

CurrentBody == bat.sent[Len(bat.sent)]

\* (mutant) the id of a processed page pushed to `failed`
pushedToFailed(b, response) ==
  [b EXCEPT !.failed = Append(@, CurrentBody.pageId), !.response = response]

\* completed.push(pageId)
completedPush(b, response) ==
  [b EXCEPT !.completed = Append(@, CurrentBody.pageId), !.response = response]

\* failed.push(pageId)
failedPush(b, response) ==
  [b EXCEPT !.failed = Append(@, CurrentBody.pageId), !.response = response]

\* response.ok: the stage ran and its result was saved
ResponseOk ==
  /\ bat.pc = "fetch"
  /\ calls' = Append(calls, ProcessPrompt(pages, CurrentBody))
  /\ pages' = ProcessSave(pages, CurrentBody, BatchOutput)
  /\ uiPages' = setPages(uiPages, CurrentBody.pageId, bat.type, BatchOutput)
  /\ bat' = AfterItem(completedPush(bat, "ok"), stopProcessingRef)
  /\ UNCHANGED stopProcessingRef

\* response.ok, but `await response.json()` rejects: the catch pushes the
\* id to `failed`; the handler had saved the result before it answered
JsonThrows ==
  /\ bat.pc = "fetch"
  /\ calls' = Append(calls, ProcessPrompt(pages, CurrentBody))
  /\ pages' = ProcessSave(pages, CurrentBody, BatchOutput)
  /\ bat' = AfterItem(failedPush(bat, "ok"), stopProcessingRef)
  /\ UNCHANGED <<uiPages, stopProcessingRef>>

\* a response that is not ok: the stage was called and threw, or the handler
\* failed before it; nothing is saved
ResponseNotOk ==
  /\ bat.pc = "fetch"
  /\ \E called \in BOOLEAN :
       calls' = IF called THEN Append(calls, ProcessPrompt(pages, CurrentBody))
                          ELSE calls
  /\ bat' = AfterItem(failedPush(bat, "notok"), stopProcessingRef)
  /\ UNCHANGED <<pages, uiPages, stopProcessingRef>>

\* fetch rejects (the request never arrives): catch, failed.push(pageId)
FetchThrows ==
  /\ bat.pc = "fetch"
  /\ bat' = AfterItem(failedPush(bat, "none"), stopProcessingRef)
  /\ UNCHANGED <<pages, uiPages, calls, stopProcessingRef>>

\* setTimeout(r, 1000) fires; i++ and the next turn of the loop
PacingElapsed ==
  /\ bat.pc = "wait"
  /\ bat' = Loop([bat EXCEPT !.i = @ + 1], stopProcessingRef)
  /\ UNCHANGED <<pages, uiPages, calls, stopProcessingRef>>

BatchInit ==
  /\ pages = BatchStore
  /\ books = [b \in BookIds |-> NewBook]
  /\ nextId = UnknownId
  /\ req = Idle
  /\ seen = 0
  /\ ops = 0
  /\ uiPages \in FetchedPages(pages, 1)
  /\ bat = NoBatch
  /\ stopProcessingRef = FALSE
  /\ calls = << >>
  /\ pipe = NoPipe
  /\ race = NoRace
  /\ view = NoView

\* a button of the prepare page starts a run
RunBatch ==
  /\ CanRun
  /\ \E type \in Stages, pageIds \in BatchLists : processPages(type, pageIds)

BatchNext ==
  \/ RunBatch /\ UNCHANGED <<books, nextId, req, seen, ops, pipe, race, view>>
  \/ stopProcessing /\ UNCHANGED <<books, nextId, req, seen, ops, pipe, race, view>>
  \/ ResponseOk /\ UNCHANGED <<books, nextId, req, seen, ops, pipe, race, view>>
  \/ ResponseNotOk /\ UNCHANGED <<books, nextId, req, seen, ops, pipe, race, view>>
  \/ FetchThrows /\ UNCHANGED <<books, nextId, req, seen, ops, pipe, race, view>>
  \/ JsonThrows /\ UNCHANGED <<books, nextId, req, seen, ops, pipe, race, view>>
  \/ PacingElapsed /\ UNCHANGED <<books, nextId, req, seen, ops, pipe, race, view>>

SpecBatch == BatchInit /\ [][BatchNext]_vars

\* ------------------------------------------------ one run after another
\* the same page with several runs of processPages, each of a short list
MaxReruns == 2               \* runs of processPages in one behaviour
MaxRerunLen == 2             \* longest pageIds list of these runs

RerunLists == {s \in BatchLists : Len(s) <= MaxRerunLen}

\* a button of the prepare page starts a run, the first or a later one
RunAgain ==
  /\ ~bat.processing.active /\ bat.runs < MaxReruns
  /\ \E type \in Stages, pageIds \in RerunLists : processPages(type, pageIds)

RerunNext ==
  \/ RunAgain /\ UNCHANGED <<books, nextId, req, seen, ops, pipe, race, view>>
  \/ stopProcessing /\ UNCHANGED <<books, nextId, req, seen, ops, pipe, race, view>>
  \/ ResponseOk /\ UNCHANGED <<books, nextId, req, seen, ops, pipe, race, view>>
  \/ ResponseNotOk /\ UNCHANGED <<books, nextId, req, seen, ops, pipe, race, view>>
  \/ FetchThrows /\ UNCHANGED <<books, nextId, req, seen, ops, pipe, race, view>>
  \/ JsonThrows /\ UNCHANGED <<books, nextId, req, seen, ops, pipe, race, view>>
  \/ PacingElapsed /\ UNCHANGED <<books, nextId, req, seen, ops, pipe, race, view>>

SpecRerun == BatchInit /\ [][RerunNext]_vars

\* the fetch in flight resolves, with a response or with an error
Resolves ==
  /\ ResponseOk \/ ResponseNotOk \/ FetchThrows \/ JsonThrows
  /\ UNCHANGED <<books, nextId, req, seen, ops, pipe, race, view>>

\* the timer of the pacing wait fires
TimerFires == PacingElapsed /\ UNCHANGED <<books, nextId, req, seen, ops, pipe, race, view>>

\* every external call resolves in the end and every timer fires
SpecRerunFair ==
  SpecRerun /\ WF_vars(Resolves) /\ WF_vars(TimerFires)

\* ---------------------------------------------- two requests in flight
\* The server takes up another request while a handler awaits its database
\* call.  `req` is the handler that takes the next step, race.rival the
\* other one; Switch hands the turn over.
RivalInFlight == race.rival.pc \notin {"idle", "done"}

\* the structural requests sent: a delete, a split, a reorder that names the
\* book's pages exactly, an upload of one image
RacePageOrders(db, bookId) ==
  {s \in PageOrders(db) :
     /\ Len(s) > 0 /\ Len(s) = Cardinality(PagesOf(db, bookId))
     /\ Range(s) = PagesOf(db, bookId)}

\* `op` is requested, possibly while the other handler is unfinished
Requested(op) ==
  race' = [race EXCEPT !.started = @ \cup {op},
                       !.interleaved = @ \/ RivalInFlight]

RaceRequest ==
  /\ CanStart
  /\ \/ \E id \in PageIds : DeleteBegin(id) /\ Requested("delete")
     \/ \E id \in PageIds :
          SplitBegin(id, "left", DefaultSplitRatio) /\ Requested("split")
     \/ \E bookId \in BookIds :
          \E pageOrder \in RacePageOrders(pages, bookId) :
            ReorderBegin(bookId, TRUE, pageOrder) /\ Requested("reorder")
     \/ \E bookId \in BookIds :
          UploadBegin(bookId, <<"image">>) /\ Requested("upload")

\* the handler whose turn it is makes its next database call
RaceStep ==
  /\ InFlight
  /\ \/ DeleteRemove
     \/ DeleteFind
     \/ DeleteRenumber
     \/ SplitCrop
     \/ SplitInsert
     \/ SplitFind
     \/ SplitRenumber
     \/ SplitBookCount
     \/ ReorderStep
     \/ UploadFile
     \/ UploadThumbnail
  /\ race' = [race EXCEPT !.interleaved = @ \/ RivalInFlight]

\* the awaited call of the handler whose turn it is throws
RaceThrow ==
  /\ Throw
  /\ race' = [race EXCEPT !.failed = TRUE,
                          !.interleaved = @ \/ RivalInFlight]

\* the other handler's awaited call resolves first
Switch ==
  /\ InFlight \/ RivalInFlight
  /\ req' = race.rival
  /\ race' = [race EXCEPT !.rival = req]
  /\ UNCHANGED <<pages, books, nextId, seen, ops>>

RaceNext ==
  \/ RaceRequest /\ UNCHANGED <<uiPages, bat, stopProcessingRef, calls, pipe, view>>
  \/ RaceStep /\ UNCHANGED <<uiPages, bat, stopProcessingRef, calls, pipe, view>>
  \/ RaceThrow /\ UNCHANGED <<uiPages, bat, stopProcessingRef, calls, pipe, view>>
  \/ Switch /\ UNCHANGED <<uiPages, bat, stopProcessingRef, calls, pipe, view>>

\* the seeds of Init, and a book of three pages
RaceInit ==
  /\ pages \in SeedStores \cup {BatchStore}
  /\ books = [b \in BookIds |-> NewBook]
  /\ nextId = Cardinality(DOMAIN pages) + 1
  /\ req = Idle
  /\ seen = 0
  /\ ops = 0
  /\ Quiet

SpecRace == RaceInit /\ [][RaceNext]_vars

\* ------------------------------------- the prepare page: drag and drop
\* The repository holds two prepare pages, prepare/page.tsx and the one of
\* part_000; each keeps the book's pages in its state `pages` (uiPages) and
\* posts the new order after a drop.
Components == {"page.tsx", "part_000"}

\* a book of three pages, plain or with page 2 recorded as a product of the
\* split of page 1
ViewStores == {BatchStore, [BatchStore EXCEPT ![2].split_from = 1]}

Ids(list) == [k \in 1..Len(list) |-> list[k].id]

\* (data.pages || []).filter(p => !p.split_from)
originalPages(db, list) ==
  SelectSeq(list, LAMBDA p : db[p.id].split_from = NoId)

\* fetchBook(): setPages(data.pages || []), in part_000 setPages(originalPages)
fetchBook ==
  /\ ~InFlight
  /\ \E list \in FetchedPages(pages, view.bookId) :
       uiPages' = IF view.component = "part_000"
                    THEN originalPages(pages, list) ELSE list
  /\ UNCHANGED <<pages, books, nextId, req, seen, ops, view>>

\* newPages.splice(draggedIndex, 1); newPages.splice(targetIndex, 0, draggedPage)
spliced(list, draggedIndex, targetIndex) ==
  LET rest == [k \in 1..(Len(list) - 1) |->
                 IF k < draggedIndex THEN list[k] ELSE list[k + 1]]
  IN [k \in 1..Len(list) |->
        IF k < targetIndex THEN rest[k]
        ELSE IF k = targetIndex THEN list[draggedIndex]
        ELSE rest[k - 1]]

\* handleDrop(e, targetPageId) with draggedPageId set: the list is reordered
\* locally and posted to /api/books/:id/reorder
handleDrop(draggedPageId, targetPageId) ==
  LET draggedIndex == findIndex(uiPages, draggedPageId)
      targetIndex == findIndex(uiPages, targetPageId)
      newPages == spliced(uiPages, draggedIndex, targetIndex)
  IN /\ draggedPageId # targetPageId
     /\ draggedIndex # 0 /\ targetIndex # 0
     /\ uiPages' = newPages
     /\ view' = [view EXCEPT !.before = Ids(uiPages),
                             !.dragged = draggedPageId, !.target = targetPageId]
     /\ ReorderBegin(view.bookId, TRUE, Ids(newPages))

Drop ==
  /\ CanStart
  /\ \E draggedPageId, targetPageId \in Range(Ids(uiPages)) :
       handleDrop(draggedPageId, targetPageId)

\* deletePage(pageId): DELETE /api/pages/:id is sent
deletePage ==
  /\ CanStart
  /\ \E pageId \in Range(Ids(uiPages)) : DeleteBegin(pageId)
  /\ UNCHANGED <<uiPages, view>>

\* the delete handler's next call; with its answer, if (res.ok)
\* setPages(prev => prev.filter(p => p.id !== pageId))
DeleteAnswered ==
  /\ req.op = "delete" /\ InFlight
  /\ DeleteRemove \/ DeleteFind \/ DeleteRenumber
  /\ uiPages' = IF req'.pc = "done" /\ req'.status = 200
                  THEN SelectSeq(uiPages, LAMBDA p : p.id # req.id)
                  ELSE uiPages
  /\ UNCHANGED view

\* the reorder handler's next call
ReorderAnswered ==
  /\ req.op = "reorder" /\ InFlight
  /\ ReorderStep
  /\ UNCHANGED <<uiPages, view>>

\* the handler's awaited call throws: 500, which neither component answers
\* by changing its list (part_000 fetches the book again)
HandlerThrows == Throw /\ UNCHANGED <<uiPages, view>>

ViewInit ==
  /\ pages \in ViewStores
  /\ books = [b \in BookIds |-> NewBook]
  /\ nextId = UnknownId
  /\ req = Idle
  /\ seen = 0
  /\ ops = 0
  /\ uiPages = << >>
  /\ bat = NoBatch
  /\ stopProcessingRef = FALSE
  /\ calls = << >>
  /\ pipe = NoPipe
  /\ race = NoRace
  /\ view \in {[NoView EXCEPT !.component = c, !.bookId = 1] : c \in Components}

ViewNext ==
  \/ fetchBook /\ UNCHANGED <<bat, stopProcessingRef, calls, pipe, race>>
  \/ Drop /\ UNCHANGED <<bat, stopProcessingRef, calls, pipe, race>>
  \/ deletePage /\ UNCHANGED <<bat, stopProcessingRef, calls, pipe, race>>
  \/ DeleteAnswered /\ UNCHANGED <<bat, stopProcessingRef, calls, pipe, race>>
  \/ ReorderAnswered /\ UNCHANGED <<bat, stopProcessingRef, calls, pipe, race>>
  \/ HandlerThrows /\ UNCHANGED <<bat, stopProcessingRef, calls, pipe, race>>

SpecView == ViewInit /\ [][ViewNext]_vars

\* ================================================================ claims
Done(op, status) == req.pc = "done" /\ req.op = op /\ req.status = status
pre == req.pre

\* the page numbers of book b are exactly 1..N, N its number of pages
Contiguous(db, b) ==
  /\ {db[p].page_number : p \in PagesOf(db, b)}
       = {Num(k) : k \in 1..Cardinality(PagesOf(db, b))}
  /\ \A p, q \in PagesOf(db, b) : p # q => db[p].page_number # db[q].page_number

IsPermutationOf(s, S) ==
  /\ Len(s) = Cardinality(S)
  /\ Range(s) = S

\* every field of a page but its page_number
Rest(doc) == [doc EXCEPT !.page_number = 0]

Overlap(c, d) == Max(c[1], d[1]) < Min(c[2], d[2])

\* C1: after every upload, delete, split or reorder that completes, the
\* page numbers of every book are exactly 1..N without gap or duplicate.
C1_ContiguousAfterEachOperation ==
  (req.pc = "done" /\ req.status = 200
     /\ req.op \in {"upload", "delete", "split", "reorder"})
    => \A b \in BookIds : Contiguous(pages, b)

\* C2: a reorder whose array is not exactly the set of the book's page ids
\* fails with InvalidArgument (400) and changes no page_number.
C2_MismatchedReorderRejected ==
  (req.pc = "done" /\ req.op = "reorder" /\ req.book \in BookIds
     /\ ~IsPermutationOf(req.pageOrder, PagesOf(pre, req.book)))
    => /\ req.status = 400
       /\ \A p \in DOMAIN pre : pages[p].page_number = pre[p].page_number

\* C3: a reorder with a full permutation of the book's page ids gives the
\* id at index i the page_number i + 1 (0-based i), so that the book listed
\* by ascending page_number is the array.
C3_ReorderAssignsIndexPlusOne ==
  (Done("reorder", 200) /\ IsPermutationOf(req.pageOrder, PagesOf(pre, req.book)))
    => /\ \A i \in 1..Len(req.pageOrder) :
            pages[req.pageOrder[i]].page_number = Num(i)
       /\ SortedByPageNumber(pages, req.book) = {req.pageOrder}

C3_Witness ==
  /\ Done("reorder", 200)
  /\ IsPermutationOf(req.pageOrder, PagesOf(pre, req.book))
  /\ Len(req.pageOrder) = 3
  /\ Contiguous(pre, req.book)
  /\ \A i \in 1..3 : pre[req.pageOrder[i]].page_number # Num(i)

\* C4: a delete removes exactly the named page, numbers the remaining pages
\* of its book 1..N-1 in their prior order and leaves their other fields.
C4_DeleteRenumbers ==
  Done("delete", 200) =>
    LET b == pre[req.id].book_id IN
    /\ DOMAIN pages = DOMAIN pre \ {req.id}
    /\ Contiguous(pages, b)
    /\ \A p, q \in PagesOf(pages, b) :
         pre[p].page_number < pre[q].page_number
           => pages[p].page_number < pages[q].page_number
    /\ \A p \in DOMAIN pages : Rest(pages[p]) = Rest(pre[p])

C4_Witness ==
  /\ Done("delete", 200)
  /\ Cardinality(PagesOf(pages, pre[req.id].book_id)) >= 2
  /\ \E p, q \in PagesOf(pages, pre[req.id].book_id) :
       /\ pre[p].page_number < pre[req.id].page_number
       /\ pre[req.id].page_number < pre[q].page_number
       /\ pages[q].page_number # pre[q].page_number
       /\ pages[q].split_from # NoId

\* C5: a split that succeeds adds exactly one page to the book; the origin
\* keeps its id and receives a crop; the new page has the origin's image
\* and a crop that does not overlap the origin's.
C5_SplitAddsOnePage ==
  Done("split", 200) =>
    LET b == pre[req.id].book_id IN
    /\ req.newId \notin DOMAIN pre
    /\ DOMAIN pages = DOMAIN pre \cup {req.newId}
    /\ PagesOf(pages, b) = PagesOf(pre, b) \cup {req.newId}
    /\ pages[req.id].crop # NoCrop
    /\ pages[req.newId].crop # NoCrop
    /\ imageUrl(pages[req.newId]) = imageUrl(pre[req.id])
    /\ imageUrl(pages[req.id]) = imageUrl(pre[req.id])
    /\ ~Overlap(pages[req.id].crop, pages[req.newId].crop)

C5_Witness ==
  /\ Done("split", 200)
  /\ pre[req.id].crop # NoCrop
  /\ pages[req.id].crop # pre[req.id].crop

\* C6: left = [0, splitRatio], right = [splitRatio, 1000]; the origin gets
\* the crop its side names, the new page the other, so that the two meet
\* at splitRatio and cover 0..1000.
C6_CropsCoverThousand ==
  (Done("split", 200) /\ req.side \in {"left", "right"}) =>
    LET left == IF req.side = "left" THEN pages[req.id].crop ELSE pages[req.newId].crop
        right == IF req.side = "left" THEN pages[req.newId].crop ELSE pages[req.id].crop
    IN /\ left = <<0, req.splitRatio>>
       /\ right = <<req.splitRatio, ImageScale>>

\* C7: after a split of the page numbered k the origin has k, the new page
\* k + 1, every page that had j > k has j + 1 and every page with j < k
\* keeps j.
C7_SplitShiftsLaterPages ==
  Done("split", 200) =>
    LET b == pre[req.id].book_id
        k == pre[req.id].page_number
    IN /\ pages[req.id].page_number = k
       /\ pages[req.newId].page_number = k + Num(1)
       /\ \A p \in PagesOf(pre, b) \ {req.id} :
            /\ pre[p].page_number > k => pages[p].page_number = pre[p].page_number + Num(1)
            /\ pre[p].page_number < k => pages[p].page_number = pre[p].page_number

\* C8: no reader of the store ever receives a fractional page_number, and
\* no request, ended normally or by a failure, leaves one stored.
C8_FractionNeverVisible ==
  /\ IsWhole(seen)
  /\ req.pc = "done" => \A p \in DOMAIN pages : IsWhole(pages[p].page_number)

\* C9: the page a split creates has split_from = the id of its origin, and
\* a page created by an upload has no split_from.
C9_SplitFromNamesOrigin ==
  /\ Done("split", 200) => pages[req.newId].split_from = req.id
  /\ \A p \in DOMAIN pages :
       pages[p].photo_original.kind = "local" => pages[p].split_from = NoId

\* C10: no page is its own split_from, and a split_from that is set is
\* never changed or cleared by a later step of any handler.
NoSelfReference == \A p \in DOMAIN pages : pages[p].split_from # p
SplitFromKept ==
  \A p \in DOMAIN pages \cap DOMAIN pages' :
    pages[p].split_from # NoId => pages'[p].split_from = pages[p].split_from
C10_SplitFromImmutable == []NoSelfReference /\ [][SplitFromKept]_vars

C10_Witness ==
  /\ req.pc = "done"
  /\ req.status = 200
  /\ \E p \in DOMAIN pages \cap DOMAIN pre :
       /\ pre[p].split_from # NoId
       /\ pages[p].crop # pre[p].crop
       /\ pages[p].page_number # pre[p].page_number
\* the request just answered and the one before it are two splits of the
\* same origin page, both successful
SplitTwice ==
  /\ Done("split", 200)
  /\ req.prev.op = "split" /\ req.prev.status = 200
  /\ req.prev.id = req.id

\* C20: splitting is not idempotent: two splits of the same origin page
\* create two independent new pages, so the book has two pages more than
\* before the first split and the two new pages have distinct ids.
C20_SplitTwiceAddsTwoPages ==
  SplitTwice =>
    LET b == pages[req.id].book_id
    IN /\ req.newId # req.prev.newId
       /\ {req.newId, req.prev.newId} \subseteq PagesOf(pages, b) \ DOMAIN req.prev.pre
       /\ Cardinality(PagesOf(pages, b)) = Cardinality(PagesOf(req.prev.pre, b)) + 2

\* split 'left' 50 then split 'right' 50 of a page that had no crop
C20_Witness ==
  /\ SplitTwice
  /\ req.prev.side = "left" /\ req.prev.splitRatio = DefaultSplitRatio
  /\ req.side = "right" /\ req.splitRatio = DefaultSplitRatio
  /\ req.prev.pre[req.id].crop = NoCrop
  /\ pages[req.newId].crop # pages[req.prev.newId].crop

\* ------------------------------------------------ claims on the pipeline
StageOrder == <<"ocr", "translation", "summary">>
StageIndex(stage) == CHOOSE k \in 1..Len(StageOrder) : StageOrder[k] = stage
ProcessAll == pipe.fn = "processPageComplete"

\* C16: ProcessAll runs transcribe, translate, summarize in that order, each
\* after the one before has resolved; translate is given the OCR text this
\* call produced and summarize the translation this call produced; the
\* previous page's results are only the context of the same-named stage.
C16_StagesInOrderThreaded ==
  ProcessAll =>
    /\ Len(calls) <= Len(StageOrder)
    /\ \A k \in 1..Len(calls) :
         /\ calls[k].stage = StageOrder[k]
         /\ calls[k].context.of =
              IF Truthy(pipe.previousPage[StageOrder[k]])
                THEN pipe.previousPage[StageOrder[k]] ELSE Undefined
    /\ Len(calls) >= 2 =>
         /\ pipe.ocr \in Outputs("ocr")
         /\ calls[2].input = pipe.ocr
    /\ Len(calls) >= 3 =>
         /\ pipe.translation \in Outputs("translation")
         /\ calls[3].input = pipe.translation

C16_Witness ==
  /\ ProcessAll /\ pipe.pc = "returned"
  /\ pipe.previousPage.ocr = "A"
  /\ Len(calls) = Len(StageOrder)
  /\ pipe.result.ocr = "o2" /\ calls[2].input = "o2"

\* C17: when a stage of ProcessAll fails no later stage of that call is
\* attempted: the call ends there.
C17_NoStageAfterFailure ==
  (ProcessAll /\ pipe.result.failed # "none") =>
    /\ pipe.pc = "thrown"
    /\ \A k \in 1..Len(calls) :
         StageIndex(calls[k].stage) <= StageIndex(pipe.result.failed)

C17_Witness ==
  /\ ProcessAll /\ pipe.pc = "thrown"
  /\ pipe.result.failed = "translation"
  /\ Len(calls) = 2

\* C18: when a stage of ProcessAll fails after earlier stages succeeded,
\* ProcessAll does not throw: it returns the outputs of the stages that
\* completed, together with the error.
C18_PartialResultReturned ==
  (ProcessAll /\ pipe.result.failed \in {"translation", "summary"}) =>
    /\ pipe.pc # "thrown"
    /\ pipe.result.ocr = pipe.ocr
    /\ pipe.result.failed = "summary" => pipe.result.translation = pipe.translation

\* C19: translate is never run on an empty or absent transcription and
\* summarize never on an empty or absent translation: no prompt of these
\* stages reaches the inference service with such an input.
C19_NoStageOnEmptyInput ==
  \A k \in 1..Len(calls) :
    calls[k].stage \in {"translation", "summary"} => Truthy(calls[k].input)

\* ------------------------------------------ claims on the orchestrator
BatchEnded == bat.pc = "ended"
NoStopRequested == bat.stopAt = NoStop /\ ~stopProcessingRef
IsListed(pageId) == findIndex(bat.pages, pageId) # 0
Recorded == Range(bat.processing.completed) \cup Range(bat.processing.failed)
SentIds == [k \in 1..Len(bat.sent) |-> bat.sent[k].pageId]

\* C11: when a run ends without cancellation every id of the supplied list
\* is in exactly one of completed and failed: none in both, none dropped,
\* also an id that names no listed page.
C11_EveryIdRecordedOnce ==
  (BatchEnded /\ ~bat.processing.stopped) =>
    \A k \in 1..Len(bat.pageIds) :
      (bat.pageIds[k] \in Range(bat.processing.completed))
        # (bat.pageIds[k] \in Range(bat.processing.failed))

\* stopProcessing() was called while item stopAt.i (counted from 0) was in
\* flight, and that item is not the last of the list
StoppedInFlight ==
  /\ bat.stopAt.pc = "fetch"
  /\ bat.stopAt.i < Len(bat.pageIds) - 1

\* the listed ids of the list up to and including the item in flight
AttemptedUpToStop ==
  {bat.pageIds[k] : k \in {j \in 1..(bat.stopAt.i + 1) : IsListed(bat.pageIds[j])}}

\* C12: cancellation requested while item i is in flight, i not the last:
\* item i finishes and is recorded, no later item is started, and the run
\* ends stopped with completed and failed holding exactly the items up to
\* i that were attempted.
C12_StopLetsItemFinish ==
  StoppedInFlight =>
    /\ bat.pc \in {"fetch", "ended"}
    /\ Range(SentIds) = AttemptedUpToStop
    /\ BatchEnded =>
         /\ bat.processing.stopped
         /\ bat.pageIds[bat.stopAt.i + 1] \in Recorded
         /\ Recorded = AttemptedUpToStop
         /\ Len(bat.processing.completed) + Len(bat.processing.failed)
              = Cardinality(AttemptedUpToStop)

C12_Witness ==
  /\ StoppedInFlight /\ BatchEnded
  /\ Len(bat.pageIds) = 3 /\ bat.stopAt.i = 1
  /\ Len(bat.processing.completed) = 1 /\ Len(bat.processing.failed) = 1

\* the step in which the item in flight fails
ItemFails == bat.pc = "fetch" /\ Len(bat'.failed) > Len(bat.failed)

\* the failed id is appended and reported; unless it was the last item or
\* a stop was requested the run goes on to its pacing wait
FailureGoesOn ==
  ItemFails =>
    /\ bat'.failed = Append(bat.failed, CurrentBody.pageId)
    /\ bat'.processing.failed = bat'.failed
    /\ (bat.i < Len(bat.pageIds) - 1 /\ ~stopProcessingRef) =>
         bat'.pc = "wait" /\ bat'.processing.active

\* without a stop the run ends only when every listed id was attempted
AllAttempted ==
  (BatchEnded /\ NoStopRequested) =>
    /\ Range(SentIds) = {id \in Range(bat.pageIds) : IsListed(id)}
    /\ Recorded = Range(SentIds)

\* C13: a failed item (response not ok, or an error thrown) does not halt
\* the batch: its id is appended to failed and, unless cancellation was
\* requested, the next id of the list is processed.
C13_FailureDoesNotHalt == [][FailureGoesOn]_vars /\ []AllAttempted

C13_Witness ==
  /\ BatchEnded /\ NoStopRequested
  /\ Len(bat.pageIds) = 3
  /\ bat.processing.failed = <<bat.pageIds[1]>>
  /\ bat.processing.completed = <<bat.pageIds[2], bat.pageIds[3]>>

\* C14: the items are started in the order of the supplied list, at most
\* one is in flight at any time, and each id is attempted at most once.
C14_InOrderOneAtATime ==
  LET listed == SelectSeq(bat.pageIds, IsListed)
  IN /\ Len(bat.sent) <= Len(listed)
     /\ SentIds = SubSeq(listed, 1, Len(bat.sent))
     /\ \A j, k \in 1..Len(bat.sent) : j # k => SentIds[j] # SentIds[k]
     /\ Len(bat.sent) - (Len(bat.completed) + Len(bat.failed))
          = IF bat.pc = "fetch" THEN 1 ELSE 0

C14_Witness ==
  /\ BatchEnded
  /\ bat.pageIds = <<3, 1, 2>>
  /\ SentIds = bat.pageIds
  /\ bat.processing.failed = <<3>>

\* the book's pages by page_number
BookOrder == CHOOSE order \in SortedByPageNumber(pages, 1) : TRUE
Position(pageId) == CHOOSE k \in 1..Len(BookOrder) : BookOrder[k] = pageId

\* the stage called in this step for the item in flight is given the result
\* of the same stage of the page before it in book order, or nothing
ContextIsPredecessor ==
  (bat.pc = "fetch" /\ Len(calls') = Len(calls) + 1) =>
    LET c == calls'[Len(calls')]
        p == Position(CurrentBody.pageId)
    IN /\ c.stage = bat.type
       /\ IF p > 1
            THEN LET r == Data(pages[BookOrder[p - 1]][bat.type])
                 IN c.context.of = IF Truthy(r) THEN r ELSE Undefined
            ELSE c.context = NoContext

\* C15: stage S run for the page at position p > 1 receives as previous
\* context the stage-S result of the page at position p - 1 in book order;
\* for the page at position 1 no context is supplied and the stage runs.
C15_ContextFromPreviousPage == [][ContextIsPredecessor]_vars

C15_Witness ==
  /\ Len(calls) = 2 /\ bat.type = "ocr"
  /\ SentIds[1] = 1 /\ calls[1].context = NoContext
  /\ SentIds[2] = 2 /\ calls[2].context.of = "A"

\* ------------------------------------------- more claims on the ledger
\* C21: a split requested for a page whose stored detection says it is not
\* a two-page spread is refused: no page is created, no crop is set, no
\* page number changes.
C21_SinglePageNotSplit ==
  (req.op = "split" /\ req.id \in DOMAIN pre
     /\ pre[req.id].split_detection = "single") =>
    /\ pages = pre
    /\ req.pc = "done" /\ req.status # 200

\* every field of a page but its split_detection
Undetected(doc) == [doc EXCEPT !.split_detection = "absent"]

\* C22: spread detection only stores its result in the page's
\* split_detection: no page is created or deleted and no page's crop,
\* page_number or image changes, whatever the result.
C22_DetectOnlyStoresResult ==
  req.op = "detect" =>
    /\ DOMAIN pages = DOMAIN pre
    /\ \A p \in DOMAIN pages : Undetected(pages[p]) = Undetected(pre[p])
    /\ \A p \in DOMAIN pages \ {req.id} : pages[p] = pre[p]
    /\ Done("detect", 200) => pages[req.id].split_detection = req.det

C22_Witness ==
  /\ Done("detect", 200) /\ req.det = "spread"
  /\ pre[req.id].split_detection = "absent"
  /\ pages[req.id].split_detection = "spread"
  /\ pages[req.id].crop = NoCrop

\* the highest page_number of book b, 0 for a book without pages
MaxPageNumber(db, b) ==
  IF PagesOf(db, b) = {} THEN 0
  ELSE SetMax({db[p].page_number : p \in PagesOf(db, b)})

\* C23: an upload of k accepted images to a book whose highest page number
\* is M creates k pages numbered M+1..M+k in the order supplied (1..k for
\* an empty book), without gap when files are skipped, and changes no
\* existing page.
C23_UploadAppends ==
  Done("upload", 200) =>
    LET new == DOMAIN pages \ DOMAIN pre
        k == AcceptedCount(req.files)
        M == MaxPageNumber(pre, req.book)
    IN /\ Cardinality(new) = k
       /\ \A p \in new : pages[p].book_id = req.book
       /\ {pages[p].page_number : p \in new} = {M + Num(j) : j \in 1..k}
       /\ \A p, q \in new : p < q => pages[p].page_number < pages[q].page_number
       /\ \A p \in DOMAIN pre : p \in DOMAIN pages /\ pages[p] = pre[p]

C23_Witness ==
  /\ Done("upload", 200)
  /\ req.files = <<"other", "image">>
  /\ MaxPageNumber(pre, req.book) = Num(2)
  /\ \E p \in DOMAIN pages \ DOMAIN pre : pages[p].page_number = Num(3)

\* C24: a delete of an id that names no page fails with NotFound and
\* changes nothing.
C24_DeleteMissingNotFound ==
  (req.op = "delete" /\ req.id \notin DOMAIN pre) =>
    /\ Done("delete", 404)
    /\ pages = pre

C24_Witness ==
  /\ Done("delete", 404)
  /\ DOMAIN pre # {}
  /\ req.id \notin DOMAIN pre
  /\ pages = pre

\* the book a structural request works on
TargetBook ==
  IF req.op \in {"delete", "split"}
    THEN IF req.id \in DOMAIN pre THEN pre[req.id].book_id ELSE 0
    ELSE req.book

\* C25: a page belongs to one book, and a delete, split, reorder or upload
\* on one book changes neither the page set nor a page_number of another
\* book, also when a reorder for book A lists pages of book B.
C25_OtherBooksUntouched ==
  req.op \in {"delete", "split", "reorder", "upload"} =>
    /\ \A p \in DOMAIN pre :
         pre[p].book_id # TargetBook =>
           /\ p \in DOMAIN pages
           /\ pages[p].book_id = pre[p].book_id
           /\ pages[p].page_number = pre[p].page_number
    /\ \A p \in DOMAIN pages \ DOMAIN pre : pages[p].book_id = TargetBook

C25_Witness ==
  /\ Done("reorder", 200)
  /\ Len(req.pageOrder) = 2
  /\ req.pageOrder[2] \in DOMAIN pre
  /\ pre[req.pageOrder[2]].book_id # req.book
  /\ pages[req.pageOrder[2]].page_number = Num(1)

\* every field of a page but its stage results
StageFree(doc) == [doc EXCEPT !.ocr = "", !.translation = "", !.summary = ""]

\* C26: a write of stage results to a page changes only that page's ocr,
\* translation and summary: its page_number, crop, split_from and image,
\* and every other page, stay as they were.
C26_StageWriteIsPageScoped ==
  req.op = "patch" =>
    /\ DOMAIN pages = DOMAIN pre
    /\ \A p \in DOMAIN pages \ {req.id} : pages[p] = pre[p]
    /\ req.id \in DOMAIN pages => StageFree(pages[req.id]) = StageFree(pre[req.id])

C26_Witness ==
  /\ Done("patch", 200) /\ req.body = {"ocr"}
  /\ pre[req.id].ocr # Text /\ pages[req.id].ocr = Text
  /\ pages[req.id].split_from # NoId

\* C27: a split that fails validation (no such page, page without image,
\* book not found) answers an error and writes nothing.
C27_InvalidSplitWritesNothing ==
  (req.op = "split"
     /\ \/ req.id \notin DOMAIN pre
        \/ pre[req.id].photo.kind = "none"
        \/ pre[req.id].book_id \notin DOMAIN books) =>
    /\ req.pc = "done" /\ req.status \in {400, 404}
    /\ pages = pre

C27_Witness ==
  /\ Done("split", 400)
  /\ pre[req.id].photo.kind = "none"
  /\ pages = pre

\* xmax of leftPage and xmin of rightPage in manualDetection
ManualBoundary == 500

\* the request applyMarkedSplits sends: {detection: manualDetection}, no
\* side and no splitRatio
ManualSplit ==
  Done("split", 200) /\ req.side = "none" /\ req.splitRatio = DefaultSplitRatio

\* C28: the manual split stores what a split at the 50/50 boundary of the
\* 0-1000 axis stores: the marked page has one half as crop, the new page
\* the other, and both crops meet in the middle of the image.
C28_ManualSplitHalvesImage ==
  ManualSplit =>
    {pages[req.id].crop, pages[req.newId].crop}
      = {<<0, ManualBoundary>>, <<ManualBoundary, ImageScale>>}

\* ---- more claims on the batch orchestrator ----

\* the browser's list shows the results the run started from
LocalUntouched ==
  \A k \in 1..Len(uiPages) : uiPages[k] = LocalPage(BatchStore, uiPages[k].id)

TurnsBetween == 0..(Len(bat.pageIds) - 2)

\* C30: in a run that ends without a stop request a pacing wait separates
\* every two consecutive items of the list, none follows the last item, and
\* no wait begins once a stop is requested
C30_PacingBetweenItems ==
  /\ [](BatchEnded /\ NoStopRequested => bat.waited = TurnsBetween)
  /\ [][bat'.pc = "wait" /\ bat.pc # "wait" => ~stopProcessingRef]_vars

\* this run began with the stop flag still set by an earlier, stopped run
StartedAfterStop == bat.earlier.flag /\ bat.earlier.stopped

\* C37: the stop flag is cleared when a run starts: a run started while
\* the flag was still set by a stop request of an earlier run (stopped or
\* not) is not stopped unless stop is requested again, and it sends its
\* first item.
C37_StopFlagClearedAtStart ==
  bat.earlier.flag =>
    /\ bat.stopAt = NoStop => ~stopProcessingRef /\ ~bat.processing.stopped
    /\ IsListed(bat.pageIds[1]) =>
         bat.sent # << >> /\ SentIds[1] = bat.pageIds[1]

C37_Witness ==
  /\ StartedAfterStop /\ bat.stopAt = NoStop
  /\ BatchEnded
  /\ Len(bat.pageIds) = 2
  /\ bat.processing.completed = bat.pageIds

\* stopProcessing() was called while the last item of the list was in flight
StoppedAtLastItem ==
  /\ bat.stopAt.pc = "fetch"
  /\ bat.stopAt.i = Len(bat.pageIds) - 1

\* C38: a run is marked stopped exactly when it ended at the top of a turn
\* of the loop with the stop flag set and an item of the list not yet
\* reached; a stop requested while the last item is in flight leaves the
\* run ending not stopped, with every listed id attempted.
C38_StoppedIffItemLeft ==
  /\ bat.processing.stopped <=>
       (BatchEnded /\ stopProcessingRef /\ bat.i < Len(bat.pageIds))
  /\ (StoppedAtLastItem /\ BatchEnded) =>
       /\ ~bat.processing.stopped
       /\ Range(SentIds) = {id \in Range(bat.pageIds) : IsListed(id)}
       /\ Recorded = Range(SentIds)

C38_Witness ==
  /\ StoppedAtLastItem /\ BatchEnded
  /\ stopProcessingRef /\ ~bat.processing.stopped
  /\ Len(bat.pageIds) = 3 /\ Len(bat.sent) = 3

Running == bat.processing.active
Completed == BatchEnded /\ ~bat.processing.stopped
Stopped == BatchEnded /\ bat.processing.stopped

\* a run is Running exactly while an item is in flight or a pacing wait
\* lasts, and it leaves Running only to Completed or Stopped
RunningOnlyInsideRun ==
  /\ Running <=> bat.pc \in {"fetch", "wait"}
  /\ ~Running => (bat.pc = "idle" \/ Completed \/ Stopped)
  /\ ~(Completed /\ Stopped)

\* Running is entered only by the start of a run, and an ended run stays as
\* it ended until a new run starts
RunningOnlyByStart ==
  /\ (~Running /\ Running') => bat'.runs = bat.runs + 1
  /\ (Running /\ ~Running') => BatchEnded'
  /\ (BatchEnded /\ bat' # bat) => bat'.runs = bat.runs + 1

\* C31: Idle -> Running -> {Completed, Stopped}: when every external call
\* resolves in the end, every run that is Running ends, in exactly one of
\* Completed and Stopped, and Running is entered again only by a new run.
C31_RunStateMachine ==
  /\ []RunningOnlyInsideRun
  /\ [][RunningOnlyByStart]_vars
  /\ (Running ~> (Completed \/ Stopped))

C31_Witness ==
  /\ Stopped /\ bat.earlier.stopped
  /\ bat.runs = 2 /\ Len(bat.sent) = 1

\* the id of the page before pageId in book order, NoId for the first page
BookPredecessor(pageId) ==
  IF Position(pageId) > 1 THEN BookOrder[Position(pageId) - 1] ELSE NoId

\* the id before pageId in the list the run was given, NoId for the first
ListPredecessor(pageId) ==
  LET k == CHOOSE j \in 1..Len(bat.pageIds) : bat.pageIds[j] = pageId
  IN IF k > 1 THEN bat.pageIds[k - 1] ELSE NoId

\* C36: the previous page named in the body of an item is the page before
\* it in the book's ordered list, whatever the order and the subset of the
\* ids given to the run.
C36_PreviousPageFromBookOrder ==
  \A k \in 1..Len(bat.sent) :
    bat.sent[k].previousPageId = BookPredecessor(bat.sent[k].pageId)

\* a run of <<3, 1>>: page 3 is chained against page 2, which the list does
\* not hold, and page 1 against nothing, although 3 precedes it in the list
C36_Witness ==
  /\ bat.pageIds = <<3, 1>> /\ Len(bat.sent) = 2
  /\ bat.sent[1].previousPageId = 2
  /\ bat.sent[2].previousPageId = NoId
  /\ ListPredecessor(1) = 3

\* ---- more claims on the pipeline ----

\* C34: in every call of a stage the context put into the prompt is at
\* most the first ContextChars characters of the previous page's result,
\* the same bound for transcription, translation and summary.
C34_ContextBounded ==
  \A k \in 1..Len(calls) :
    /\ calls[k].context.chars <= ContextChars
    /\ calls[k].context.chars = Min(Chars(calls[k].context.of), ContextChars)

\* ---- the ledger: renumbering and splits ----

\* C40: the page_number a split reports for the new page (the origin's
\* number before the split, plus 1) is the page_number stored for the new
\* page once the split has renumbered the book.
C40_ReportedNumberIsStored ==
  Done("split", 200) =>
    /\ req.newPageNumber = pre[req.id].page_number + Num(1)
    /\ pages[req.newId].page_number = req.newPageNumber

\* the horizontal extent a page shows of its image
Extent(doc) == IF doc.crop = NoCrop THEN <<0, CropExtent>> ELSE doc.crop

\* two pages cut from the same image
SameImage(db, p, q) ==
  /\ p # q /\ db[p].photo = db[q].photo
  /\ db[p].crop # NoCrop /\ db[q].crop # NoCrop

\* C35: after every split, also of a page that is itself a split product,
\* the crops of the pages cut from one image do not overlap pairwise, and
\* the two crops of the split partition the extent the page had before.
C35_CropsNeverOverlap ==
  Done("split", 200) =>
    /\ \A p, q \in DOMAIN pages :
         SameImage(pages, p, q) => ~Overlap(pages[p].crop, pages[q].crop)
    /\ LET a == pages[req.id].crop
           b == pages[req.newId].crop
       IN /\ ~Overlap(a, b)
          /\ Min(a[1], b[1]) = Extent(pre[req.id])[1]
          /\ Max(a[2], b[2]) = Extent(pre[req.id])[2]

\* ---- the ledger under concurrent requests ----

\* both requests have been answered, neither in the catch
BothAnswered ==
  /\ ~InFlight /\ ~RivalInFlight
  /\ ~race.failed

\* some book's page numbers are not 1..N
NumberingBroken == \E b \in BookIds : ~Contiguous(pages, b)

\* C33: when no handler takes a step while another is unfinished, deletes,
\* splits and uploads that complete leave every book numbered 1..N (that
\* interleaved handlers do not is C33_Witness).
C33_SafeWithoutInterleaving ==
  (BothAnswered /\ ~race.interleaved
     /\ race.started \subseteq {"delete", "split", "upload"})
    => ~NumberingBroken

\* two structural requests on one book, both answered 200, whose steps
\* interleaved
Raced(op1, op2) ==
  /\ BothAnswered /\ race.interleaved
  /\ req.status = 200 /\ race.rival.status = 200
  /\ {req.op, race.rival.op} = {op1, op2}

\* two interleaved deletes leave a book with broken numbering
C33_Witness == Raced("delete", "delete") /\ NumberingBroken

\* so do a delete and a split, and a split and a reorder
RaceOfDeleteAndSplit == Raced("delete", "split") /\ NumberingBroken
RaceOfSplitAndReorder == Raced("split", "reorder") /\ NumberingBroken

\* ---- the renumbering pass ----

\* a delete or a split is in its renumbering loop: the updates of
\* req.list[1..req.i - 1] are done, the rest is not
InRenumbering == req.pc \in {"del_loop", "split_loop"}

\* C32: whatever prefix of its updates a renumbering pass has done, a pass
\* run again from there (sort by the current page_number, assign 1..N)
\* puts the pages in the order the uninterrupted pass is putting them in.
C32_RenumberingSafeToRetry ==
  InRenumbering =>
    SortedByPageNumber(pages, req.cur.book_id) = {req.list}

\* ---- the prepare page's reorder requests ----

\* a list without one id
Without(s, id) == SelectSeq(s, LAMBDA x : x # id)

\* C39: every reorder request posted after a drop carries a permutation of
\* exactly the ids of the book's stored pages, with the dragged page at the
\* index the target had and the other pages in their prior order.
C39_DropPostsExactPermutation ==
  req.op = "reorder" =>
    /\ IsPermutationOf(req.pageOrder, PagesOf(pre, req.book))
    /\ req.pageOrder[CHOOSE k \in 1..Len(view.before) : view.before[k] = view.target]
         = view.dragged
    /\ Without(req.pageOrder, view.dragged) = Without(view.before, view.dragged)

====
